---- MODULE Spec2Model ----
(***************************************************************************)
(* Financial RAG system: the retrieval pipeline (rag_pipeline.py) and the  *)
(* query agent (agent_system.py).  Strings are sequences of one-character  *)
(* strings, so that str.lower, str.replace and the re module's search,     *)
(* findall and sub are computed on characters as Python computes them.     *)
(***************************************************************************)
EXTENDS Integers, Sequences, FiniteSets

VARIABLES
    \* SimpleRAGPipeline: self.model, self.embeddings, self.chunks
    model, embeddings, chunks,
    \* the files: vector_store/embeddings.pkl, raw_filings/sec_api_data.json,
    \* processed/processed_documents.json
    cache_file, api_data_file, processed_file,
    \* the last call of build_embeddings: its argument, the number of texts it
    \* encoded, whether it wrote the cache file, and the exception it raised
    last_build,
    \* the last call of search: its arguments, argsort's output and its outcome
    last_search,
    \* SimpleFinancialAgent: the query given to it, what decompose_query made
    \* of it, the Response Record of answer_query, and the point of control
    query, query_type, sub_queries, response, pc,
    \* the locals sub_results and all_sources of the last call of answer_query,
    \* and the calls it made, in order
    last_sub_results, last_all_sources, last_calls,
    \* main.py: the names that config.py defines, the record that main
    \* printed, and the exception that left the program
    config, output, uncaught,
    \* sec_downloader.py: the files raw_filings/sec_api_data_<timestamp>.json
    \* and raw_filings/sec_api_data_latest.json
    dated_file, latest_file,
    \* the last call of load_processed_data: the branch it took and the chunks
    \* it returned
    last_load

rag_vars == <<model, embeddings, chunks>>

file_vars == <<cache_file, api_data_file, processed_file>>

agent_vars == <<query, query_type, sub_queries, response, pc,
               last_sub_results, last_all_sources, last_calls>>

main_vars == <<config, output, uncaught>>

acquire_vars == <<dated_file, latest_file, last_load>>

vars == <<rag_vars, file_vars, last_build, last_search, agent_vars, main_vars,
          acquire_vars>>

\* Python's None and a present value (an absent file and a file's contents)
None == << >>

Some(x) == <<x>>

-----------------------------------------------------------------------------
(* Characters and strings                                                  *)

Digits == {"0","1","2","3","4","5","6","7","8","9"}

LowerLetters == {"a","b","c","d","e","f","g","h","i","j","k","l","m",
                 "n","o","p","q","r","s","t","u","v","w","x","y","z"}

UpperLetters == {"A","B","C","D","E","F","G","H","I","J","K","L","M",
                 "N","O","P","Q","R","S","T","U","V","W","X","Y","Z"}

\* \w of the re module on str patterns, restricted to ASCII text
WordChars == LowerLetters \cup UpperLetters \cup Digits \cup {"_"}

UpperSeq == <<"A","B","C","D","E","F","G","H","I","J","K","L","M",
              "N","O","P","Q","R","S","T","U","V","W","X","Y","Z">>

LowerSeq == <<"a","b","c","d","e","f","g","h","i","j","k","l","m",
              "n","o","p","q","r","s","t","u","v","w","x","y","z">>

\* str.lower on one character
LowerChar(c) ==
    IF c \in UpperLetters
    THEN LowerSeq[CHOOSE i \in 1..26 : UpperSeq[i] = c]
    ELSE c

\* str.lower (concatenation makes the result a tuple)
Lower(s) == [i \in 1..Len(s) |-> LowerChar(s[i])] \o << >>

\* s[i:i+len(w)] == w
IsAt(s, i, w) ==
    /\ i >= 1
    /\ i + Len(w) - 1 <= Len(s)
    /\ \A m \in 1..Len(w) : s[i + m - 1] = w[m]

\* w in s
Contains(s, w) == \E i \in 1..(Len(s) + 1) : IsAt(s, i, w)

RECURSIVE StrReplaceFrom(_, _, _, _)
\* str.replace(old, new) from position pos on: leftmost occurrences, not
\* overlapping, old non-empty
StrReplaceFrom(s, old, new, pos) ==
    IF pos > Len(s) THEN << >>
    ELSE IF IsAt(s, pos, old)
         THEN new \o StrReplaceFrom(s, old, new, pos + Len(old))
         ELSE <<s[pos]>> \o StrReplaceFrom(s, old, new, pos + 1)

StrReplace(s, old, new) == StrReplaceFrom(s, old, new, 1)

Min(a, b) == IF a < b THEN a ELSE b

\* s[:n] for n >= 0
Take(s, n) == SubSeq(s, 1, Min(n, Len(s)))

RECURSIVE SplitFrom(_, _, _)
\* the pieces of s[pos..] between the separators ch (the recursion is over
\* the separators, not over the characters)
SplitFrom(s, ch, pos) ==
    IF \A j \in pos..Len(s) : s[j] # ch THEN <<SubSeq(s, pos, Len(s))>>
    ELSE LET i == CHOOSE i \in pos..Len(s) :
                      s[i] = ch /\ \A j \in pos..(i - 1) : s[j] # ch
         IN <<SubSeq(s, pos, i - 1)>> \o SplitFrom(s, ch, i + 1)

\* s.split(ch) for a one-character separator
Split(s, ch) == SplitFrom(s, ch, 1)

Whitespace == {" ", "\n", "\t", "\r"}

\* s.strip()
Strip(s) ==
    IF \A i \in 1..Len(s) : s[i] \in Whitespace THEN << >>
    ELSE SubSeq(s,
                CHOOSE i \in 1..Len(s) :
                    s[i] \notin Whitespace /\ \A j \in 1..(i - 1) : s[j] \in Whitespace,
                CHOOSE i \in 1..Len(s) :
                    s[i] \notin Whitespace /\ \A j \in (i + 1)..Len(s) : s[j] \in Whitespace)

DigitSeq == <<"0","1","2","3","4","5","6","7","8","9">>

RECURSIVE IntToStr(_)
\* str(n) for n >= 0
IntToStr(n) ==
    IF n < 10 THEN <<DigitSeq[n + 1]>>
    ELSE IntToStr(n \div 10) \o <<DigitSeq[(n % 10) + 1]>>

RECURSIVE JoinFrom(_, _, _)
JoinFrom(parts, sep, k) ==
    IF k > Len(parts) THEN << >>
    ELSE IF k = Len(parts) THEN parts[k]
    ELSE parts[k] \o sep \o JoinFrom(parts, sep, k + 1)

\* sep.join(parts)
Join(parts, sep) == JoinFrom(parts, sep, 1)

-----------------------------------------------------------------------------
(* The re module: a pattern is a sequence of alternatives, an alternative  *)
(* a sequence of elements [q, k, c]: q is the quantifier ("1" exactly one, *)
(* "*" greedy star, "?" greedy optional, "b" the zero-width \b), k the     *)
(* kind of atom ("lit", "dot", "digit", "word", and the classes [\d,] and  *)
(* [\d.]) and c the literal.                                               *)

Lit(w) == [i \in 1..Len(w) |-> [q |-> "1", k |-> "lit", c |-> w[i]]] \o << >>

DotStar == <<[q |-> "*", k |-> "dot", c |-> ""]>>

Digit == <<[q |-> "1", k |-> "digit", c |-> ""]>>

Digit4 == Digit \o Digit \o Digit \o Digit

\* \w+ is \w followed by \w*
WordPlus == <<[q |-> "1", k |-> "word", c |-> ""], [q |-> "*", k |-> "word", c |-> ""]>>

\* [\d,]+
DigitCommaPlus == <<[q |-> "1", k |-> "digit_comma", c |-> ""],
                    [q |-> "*", k |-> "digit_comma", c |-> ""]>>

\* [\d.]+
DigitDotPlus == <<[q |-> "1", k |-> "digit_dot", c |-> ""],
                  [q |-> "*", k |-> "digit_dot", c |-> ""]>>

OptLit(ch) == <<[q |-> "?", k |-> "lit", c |-> ch]>>

WordBoundary == <<[q |-> "b", k |-> "", c |-> ""]>>

AtomOk(e, ch) ==
    CASE e.k = "lit" -> ch = e.c
      [] e.k = "dot" -> ch # "\n"
      [] e.k = "digit" -> ch \in Digits
      [] e.k = "word" -> ch \in WordChars
      [] e.k = "digit_comma" -> ch \in Digits \cup {","}
      [] e.k = "digit_dot" -> ch \in Digits \cup {"."}
      [] OTHER -> FALSE

\* \b at position i: exactly one of s[i-1], s[i] is a word character
AtBoundary(s, i) ==
    LET before == i > 1 /\ i - 1 <= Len(s) /\ s[i - 1] \in WordChars
        after == i >= 1 /\ i <= Len(s) /\ s[i] \in WordChars
    IN before # after

\* the end of the longest run of characters from i on that atom e accepts
RECURSIVE RunEnd(_, _, _)
RunEnd(e, s, i) ==
    IF i <= Len(s) /\ AtomOk(e, s[i]) THEN RunEnd(e, s, i + 1) ELSE i

RECURSIVE ReMatch(_, _, _, _), ReBacktrack(_, _, _, _, _)
\* The backtracking matcher: elements re[k..] matched at position i of s.
\* The result is the position after the match (0: no match).
ReMatch(re, k, s, i) ==
    IF k > Len(re) THEN i
    ELSE LET e == re[k] IN
         CASE e.q = "1" ->
                IF i <= Len(s) /\ AtomOk(e, s[i])
                THEN ReMatch(re, k + 1, s, i + 1)
                ELSE 0
           [] e.q = "*" -> ReBacktrack(re, k, s, i, RunEnd(e, s, i))
           [] e.q = "?" ->
                IF i <= Len(s) /\ AtomOk(e, s[i])
                THEN ReBacktrack(re, k, s, i, i + 1)
                ELSE ReMatch(re, k + 1, s, i)
           [] e.q = "b" ->
                IF AtBoundary(s, i) THEN ReMatch(re, k + 1, s, i) ELSE 0
           [] OTHER -> 0

\* greedy: the longest repetition first (up to j), then shorter ones
ReBacktrack(re, k, s, i, j) ==
    IF j < i THEN 0
    ELSE LET r == ReMatch(re, k + 1, s, j)
         IN IF r # 0 THEN r ELSE ReBacktrack(re, k, s, i, j - 1)

RECURSIVE ReMatchAlts(_, _, _, _)
\* alternatives a.. of the pattern tried in order at position i
ReMatchAlts(alts, a, s, i) ==
    IF a > Len(alts) THEN 0
    ELSE LET r == ReMatch(alts[a], 1, s, i)
         IN IF r # 0 THEN r ELSE ReMatchAlts(alts, a + 1, s, i)

RECURSIVE ReSearchFrom(_, _, _)
\* the leftmost match at or after pos: <<start, end>>, <<0, 0>> when none
ReSearchFrom(alts, s, pos) ==
    IF pos > Len(s) + 1 THEN <<0, 0>>
    ELSE LET r == ReMatchAlts(alts, 1, s, pos)
         IN IF r # 0 THEN <<pos, r>> ELSE ReSearchFrom(alts, s, pos + 1)

\* bool(re.search(pattern, s))
ReSearch(alts, s) == ReSearchFrom(alts, s, 1)[1] # 0

RECURSIVE ReFindAllFrom(_, _, _)
\* re.findall for a pattern whose one group is the whole (non-empty) match
ReFindAllFrom(alts, s, pos) ==
    LET m == ReSearchFrom(alts, s, pos)
    IN IF m[1] = 0 THEN << >>
       ELSE <<SubSeq(s, m[1], m[2] - 1)>> \o ReFindAllFrom(alts, s, m[2])

ReFindAll(alts, s) == ReFindAllFrom(alts, s, 1)

RECURSIVE ReSubFrom(_, _, _, _)
\* re.sub for a pattern that matches no empty string and a replacement
\* without backslashes
ReSubFrom(alts, repl, s, pos) ==
    LET m == ReSearchFrom(alts, s, pos)
    IN IF m[1] = 0 THEN SubSeq(s, pos, Len(s))
       ELSE SubSeq(s, pos, m[1] - 1) \o repl \o ReSubFrom(alts, repl, s, m[2])

ReSub(alts, repl, s) == ReSubFrom(alts, repl, s, 1)

-----------------------------------------------------------------------------
(* rag_pipeline.py: SimpleRAGPipeline                                      *)

\* The unit vectors of the model, scaled by 5 so that they are integers: the
\* embedding model returns normalized vectors (normalize_embeddings=True).
UnitVectors == <<
    <<5, 0>>, <<4, 3>>, <<3, 4>>, <<0, 5>>, <<-3, 4>>, <<-4, 3>>,
    <<-5, 0>>, <<-4, -3>>, <<-3, -4>>, <<0, -5>>, <<3, -4>>, <<4, -3>> >>

\* the characters with the codes 32 to 126, in the order of their codes (the
\* place of the backquote, code 96, which no text of the model holds, is
\* kept by an empty string)
Ascii == <<" ","!","\"","#","$","%","&","'","(",")","*","+",",","-",".","/","0","1","2","3","4","5","6","7","8","9",":",";","<","=",">","?","@","A","B","C","D","E","F","G","H","I","J","K","L","M","N","O","P","Q","R","S","T","U","V","W","X","Y","Z","[","\\","]","^","_","","a","b","c","d","e","f","g","h","i","j","k","l","m","n","o","p","q","r","s","t","u","v","w","x","y","z","{","|","}","~">>

\* ord(c)
CharCode(c) ==
    IF c \in LowerLetters THEN 96 + (CHOOSE i \in 1..26 : LowerSeq[i] = c)
    ELSE IF c = " " THEN 32
    ELSE IF c \in Digits THEN 47 + (CHOOSE i \in 1..10 : DigitSeq[i] = c)
    ELSE IF c \in UpperLetters THEN 64 + (CHOOSE i \in 1..26 : UpperSeq[i] = c)
    ELSE 31 + (CHOOSE i \in 1..Len(Ascii) : Ascii[i] = c)

RECURSIVE CodeSum(_, _, _)
\* the sum of the codes of s[lo..hi], by halves
CodeSum(s, lo, hi) ==
    IF lo > hi THEN 0
    ELSE IF lo = hi THEN CharCode(s[lo])
    ELSE LET mid == (lo + hi) \div 2
         IN CodeSum(s, lo, mid) + CodeSum(s, mid + 1, hi)

\* SentenceTransformer.encode of one text: a deterministic function of the
\* characters of the text, here the unit vector that the sum of the
\* character codes selects
Encode(text) == UnitVectors[(CodeSum(text, 1, Len(text)) % Len(UnitVectors)) + 1]

\* self.model.encode(chunk_texts, normalize_embeddings=True)
EncodeAll(cs) == [i \in 1..Len(cs) |-> Encode(cs[i].text)] \o << >>

\* cosine_similarity of two of these vectors, times 25
CosineSimilarity(a, b) == a[1] * b[1] + a[2] * b[2]

RECURSIVE Flatten(_, _)
\* "for doc in data: all_chunks.extend(...)" from document k on
Flatten(docs, k) ==
    IF k > Len(docs) THEN << >> ELSE docs[k] \o Flatten(docs, k + 1)

\* A filing of the API file is held as the chunks that its sections give
\* (_simple_chunk_text applied to each section's content).
_convert_api_data_to_chunks(api_data) == Flatten(api_data, 1)

load_processed_data ==
    IF api_data_file # None THEN _convert_api_data_to_chunks(api_data_file[1])
    ELSE IF processed_file # None THEN Flatten(processed_file[1], 1)
    ELSE << >>

\* the branch that load_processed_data takes
load_source ==
    IF api_data_file # None THEN "api"
    ELSE IF processed_file # None THEN "processed"
    ELSE "none"

NoLoad == [called |-> FALSE, source |-> "none", chunks |-> << >>]

\* the snapshot taken before the texts are encoded: it holds no embeddings
CacheDataBeforeEncoding(m, e, cs) == [model |-> m, embeddings |-> << >>, chunks |-> cs]

\* cache_data = {'model': ..., 'embeddings': ..., 'chunks': ...}
CacheData(m, e, cs) == [model |-> m, embeddings |-> e, chunks |-> cs]

NoBuild == [called |-> FALSE, force_rebuild |-> FALSE, encoded |-> 0,
            wrote |-> FALSE, raised |-> ""]

BuildOutcome(force_rebuild, encoded, wrote, raised) ==
    [called |-> TRUE, force_rebuild |-> force_rebuild, encoded |-> encoded,
     wrote |-> wrote, raised |-> raised]

\* build_embeddings(force_rebuild); write_ok: open(self.embedding_cache_file,
\* 'wb') succeeds (it raises OSError when the file cannot be written, and
\* nothing in build_embeddings catches it)
BuildEmbeddings(force_rebuild, write_ok) ==
    IF cache_file # None /\ ~force_rebuild
    THEN /\ model' = cache_file[1].model
         /\ embeddings' = Some(cache_file[1].embeddings)
         /\ chunks' = cache_file[1].chunks
         /\ UNCHANGED cache_file
         /\ last_build' = BuildOutcome(force_rebuild, 0, FALSE, "")
    ELSE LET loaded == load_processed_data
         IN /\ chunks' = loaded
            /\ IF loaded = << >>
               THEN /\ UNCHANGED <<model, embeddings, cache_file>>
                    /\ last_build' = BuildOutcome(force_rebuild, 0, FALSE, "")
               ELSE /\ model' = "MiniLM"
                    /\ embeddings' = Some(EncodeAll(loaded))
                    /\ IF write_ok
                       THEN /\ cache_file' = Some(CacheData("MiniLM", EncodeAll(loaded), loaded))
                            /\ last_build' = BuildOutcome(force_rebuild, Len(loaded), TRUE, "")
                       ELSE /\ UNCHANGED cache_file
                            /\ last_build' = BuildOutcome(force_rebuild, Len(loaded), FALSE, "OSError")

\* a[start:] of Python for a sequence a
PySliceFrom(a, start) ==
    LET n == Len(a)
        from == IF start < 0
                THEN (IF n + start < 0 THEN 0 ELSE n + start)
                ELSE (IF start > n THEN n ELSE start)
    IN SubSeq(a, from + 1, n)

\* a[::-1]
Reverse(a) == [i \in 1..Len(a) |-> a[Len(a) + 1 - i]] \o << >>

\* similarities = cosine_similarity(query_embedding, self.embeddings)[0]
Similarities(q, rows) ==
    LET query_embedding == Encode(q)
    IN [i \in 1..Len(rows) |-> CosineSimilarity(query_embedding, rows[i])] \o << >>

RECURSIVE ArgsortsOf(_, _)
\* the orders of the indices rest in which the values sims never decrease
ArgsortsOf(sims, rest) ==
    IF rest = {} THEN {<< >>}
    ELSE LET least == {i \in rest : \A j \in rest : sims[i] <= sims[j]}
         IN UNION {{<<i>> \o p : p \in ArgsortsOf(sims, rest \ {i})} : i \in least}

\* The outputs that similarities.argsort() can give: numpy's default kind is
\* not a stable sort, so equal values come in any order.  Indices are
\* 1-based here.
Argsorts(sims) == ArgsortsOf(sims, 1..Len(sims))

\* the slice without the reversal [::-1]
TopIndicesNotReversed(order, top_k) == PySliceFrom(order, 0 - top_k)

\* top_indices = similarities.argsort()[-top_k:][::-1]
TopIndices(order, top_k) == Reverse(PySliceFrom(order, 0 - top_k))

\* the loop over top_indices: self.chunks[idx] raises IndexError when idx is
\* no index of self.chunks
SearchRaises(top_indices, cs) == \E i \in 1..Len(top_indices) : top_indices[i] > Len(cs)

\* chunk = self.chunks[idx]: the stored dict itself
DictAlias(idx) == idx

\* chunk = self.chunks[idx].copy(): a new dict, which is no stored chunk (0)
DictCopy(idx) == 0

\* d[key] = value
SetItem(d, key, value) ==
    [f \in DOMAIN d \cup {key} |-> IF f = key THEN value ELSE d[f]]

\* the results of the loop "for idx in top_indices" on the stored chunks cs
SearchResults(top_indices, sims, cs) ==
    [i \in 1..Len(top_indices) |->
        [chunk |-> cs[top_indices[i]],
         idx |-> top_indices[i],
         similarity_score |-> sims[top_indices[i]]]] \o << >>

RECURSIVE StoredAfter(_, _, _, _)
\* the stored chunks after the assignments chunk['similarity_score'] = ...
\* of the loop from position i on
StoredAfter(top_indices, i, sims, cs) ==
    IF i > Len(top_indices) THEN cs
    ELSE StoredAfter(top_indices, i + 1, sims,
             IF DictCopy(top_indices[i]) = 0 THEN cs
             ELSE [cs EXCEPT ![DictCopy(top_indices[i])] =
                       SetItem(@, "similarity_score", sims[top_indices[i]])])

\* self.model.encode on None raises AttributeError: search without its first
\* test
search_without_guard(q, top_k, order, cs) ==
    IF model = "None" \/ embeddings = None
    THEN [raised |-> "AttributeError", results |-> << >>]
    ELSE LET sims == Similarities(q, embeddings[1])
             top_indices == TopIndices(order, top_k)
         IN IF SearchRaises(top_indices, cs)
            THEN [raised |-> "IndexError", results |-> << >>]
            ELSE [raised |-> "", results |-> SearchResults(top_indices, sims, cs)]

\* search(query, top_k) given argsort's output, with self.chunks = cs:
\* [raised, results]
search(q, top_k, order, cs) ==
    IF model = "None" \/ embeddings = None
    THEN [raised |-> "", results |-> << >>]
    ELSE LET sims == Similarities(q, embeddings[1])
             top_indices == TopIndices(order, top_k)
         IN IF SearchRaises(top_indices, cs)
            THEN [raised |-> "IndexError", results |-> << >>]
            ELSE [raised |-> "", results |-> SearchResults(top_indices, sims, cs)]

\* self.chunks after search(query, top_k), with self.chunks = cs before
chunks_after_search(q, top_k, order, cs) ==
    IF model = "None" \/ embeddings = None THEN cs
    ELSE LET top_indices == TopIndices(order, top_k)
         IN IF SearchRaises(top_indices, cs) THEN cs
            ELSE StoredAfter(top_indices, 1, Similarities(q, embeddings[1]), cs)

\* what argsort can return in search(q, top_k) (one empty order when search
\* returns before sorting)
SearchOrders(q) ==
    IF model = "None" \/ embeddings = None THEN {<< >>}
    ELSE Argsorts(Similarities(q, embeddings[1]))

-----------------------------------------------------------------------------
(* The corpus                                                              *)

MaxChunks == 3

\* the number of chunks of the store that the agent is run on
MaxAgentChunks == 6

ChunkPool == <<
    [text |-> <<"R","e","v","e","n","u","e"," ","5","%",".">>, company |-> "MSFT", year |-> 2023,
     section |-> "financial_performance", chunk_id |-> "MSFT_2023_financial_performance_0"],
    [text |-> <<"R","i","s","k","s"," ","r","e","m","a","i","n",".">>, company |-> "GOOGL", year |-> 2023,
     section |-> "risk_factors", chunk_id |-> "GOOGL_2023_risk_factors_0"],
    [text |-> <<"I","n","c","o","m","e"," ","r","o","s","e","."," ","M","a","r","g","i","n"," ","4","0","%",".">>, company |-> "NVDA", year |-> 2022,
     section |-> "financial_performance", chunk_id |-> "NVDA_2022_financial_performance_0"],
    [text |-> <<"C","l","o","u","d"," ","g","r","e","w"," ","3","0","%",".">>, company |-> "GOOGL", year |-> 2023,
     section |-> "business", chunk_id |-> "GOOGL_2023_business_0"],
    \* a text of more than 200 characters
    [text |-> <<"A","z","u","r","e"," ","r","e","v","e","n","u","e"," ","g","r","e","w"," ","2","7","%"," ","i","n"," ","t","h","e"," ","y","e","a","r","."," ","O","f","f","i","c","e"," ","r","e","v","e","n","u","e"," ","g","r","e","w"," ","1","2","%","."," ","O","p","e","r","a","t","i","n","g"," ","m","a","r","g","i","n"," ","w","a","s"," ","4","2","%","."," ","R","e","s","e","a","r","c","h"," ","s","p","e","n","d","i","n","g"," ","r","o","s","e","."," ","W","i","n","d","o","w","s"," ","s","a","l","e","s"," ","f","e","l","l"," ","3","%","."," ","G","a","m","i","n","g"," ","s","a","l","e","s"," ","w","e","r","e"," ","f","l","a","t","."," ","S","e","a","r","c","h"," ","a","d","s"," ","s","l","o","w","e","d","."," ","D","e","v","i","c","e","s"," ","f","e","l","l","."," ","H","i","r","i","n","g"," ","w","a","s"," ","p","a","u","s","e","d"," ","t","o","o",".">>, company |-> "MSFT", year |-> 2022,
     section |-> "business", chunk_id |-> "MSFT_2022_business_0"],
    [text |-> <<"D","e","b","t"," ","w","a","s"," ","r","e","p","a","i","d",".">>, company |-> "NVDA", year |-> 2023,
     section |-> "risk_factors", chunk_id |-> "NVDA_2023_risk_factors_0"],
    \* a second chunk of the section of the first chunk
    [text |-> <<"C","h","i","p","s"," ","s","o","l","d"," ","w","e","l","l",".">>, company |-> "MSFT", year |-> 2023,
     section |-> "financial_performance", chunk_id |-> "MSFT_2023_financial_performance_1"] >>

\* the i-th chunk of the corpus
ChunkAt(i) == ChunkPool[((i - 1) % Len(ChunkPool)) + 1]

Corpus(n) == [i \in 1..n |-> ChunkAt(i)] \o << >>

\* what the API file can hold: the first n chunks as one filing
ApiDataSets == {IF n = 0 THEN << >> ELSE <<Corpus(n)>> : n \in 0..MaxChunks}

\* what the processed file can hold: two documents
ProcessedDataSets == {<< <<ChunkAt(3)>>, <<ChunkAt(2)>> >>}

\* a cache file that an earlier process wrote
CacheOf(cs) == [model |-> "MiniLM", embeddings |-> EncodeAll(cs), chunks |-> cs]

CacheFiles == {CacheOf(Corpus(n)) : n \in 1..MaxChunks}

SearchQueries == {<<>>, <<"2","0","2","3">>, <<"h","i","g","h","e","s","t">>}

TopKs == (0 - 1)..(MaxChunks + 1)

\* a call of search and its outcome out
SearchCall(q, top_k, order, out) ==
    [called |-> TRUE, query |-> q, top_k |-> top_k, order |-> order,
     raised |-> out.raised, results |-> out.results]

NoSearch == [called |-> FALSE, query |-> << >>, top_k |-> 0, order |-> << >>,
             raised |-> "", results |-> << >>]

NoResponse == [raised |-> "", query |-> << >>, answer |-> << >>,
               reasoning |-> << >>, sub_queries |-> << >>, sources |-> << >>]

-----------------------------------------------------------------------------
(* agent_system.py: SimpleFinancialAgent                                   *)

\* self.comparative_patterns
comparative_patterns == <<
    <<Lit(<<"c","o","m","p","a","r">>) \o WordPlus>>,
    <<Lit(<<"v","s">>) \o OptLit("."), Lit(<<"v","e","r","s","u","s">>)>>,
    <<Lit(<<"w","h","i","c","h">>) \o DotStar \o Lit(<<"h","i","g","h","e","s","t">>),
      Lit(<<"w","h","i","c","h">>) \o DotStar \o Lit(<<"l","o","w","e","s","t">>),
      Lit(<<"w","h","i","c","h">>) \o DotStar \o Lit(<<"b","e","s","t">>)>>,
    <<Lit(<<"g","r","o","w","t","h">>) \o DotStar \o Lit(<<"f","r","o","m">>) \o DotStar \o Lit(<<"t","o">>)>>,
    <<Lit(<<"a","l","l"," ","t","h","r","e","e"," ","c","o","m","p","a","n","i","e","s">>)>>,
    <<Lit(<<"a","c","r","o","s","s">>) \o DotStar \o Lit(<<"c","o","m","p","a","n","i","e","s">>)>> >>

\* self.multi_year_patterns
multi_year_patterns == <<
    <<Digit4 \o DotStar \o Lit(<<"t","o">>) \o DotStar \o Digit4>>,
    <<Lit(<<"f","r","o","m">>) \o DotStar \o Digit4 \o DotStar \o Lit(<<"t","o">>) \o DotStar \o Digit4>>,
    <<Lit(<<"g","r","o","w","t","h">>) \o DotStar \o Digit4 \o DotStar \o Digit4>> >>

RECURSIVE FirstMatching(_, _, _)
\* the loop "for pattern in patterns: if re.search(pattern, s): return":
\* the index of the first pattern that matches, 0 when the loop falls through
FirstMatching(patterns, s, k) ==
    IF k > Len(patterns) THEN 0
    ELSE IF ReSearch(patterns[k], s) THEN k
    ELSE FirstMatching(patterns, s, k + 1)

\* classify_query with the two loops exchanged
classify_query_multi_year_first(q) ==
    LET query_lower == Lower(q)
    IN IF FirstMatching(multi_year_patterns, query_lower, 1) # 0 THEN "multi_year"
       ELSE IF FirstMatching(comparative_patterns, query_lower, 1) # 0 THEN "comparative"
       ELSE "simple"

classify_query(q) ==
    LET query_lower == Lower(q)
    IN IF FirstMatching(comparative_patterns, query_lower, 1) # 0 THEN "comparative"
       ELSE IF FirstMatching(multi_year_patterns, query_lower, 1) # 0 THEN "multi_year"
       ELSE "simple"

\* the list of companies with one company missing
companies_without_nvidia == <<<<"M","i","c","r","o","s","o","f","t">>, <<"G","o","o","g","l","e">>>>

\* companies = ["Microsoft", "Google", "NVIDIA"]
companies == <<<<"M","i","c","r","o","s","o","f","t">>, <<"G","o","o","g","l","e">>, <<"N","V","I","D","I","A">>>>

\* the body of "for company in companies"
modified_query(q, company) ==
    LET m1 == StrReplace(q, <<"w","h","i","c","h"," ","c","o","m","p","a","n","y">>, company)
        m2 == StrReplace(m1, <<"a","l","l"," ","t","h","r","e","e"," ","c","o","m","p","a","n","i","e","s">>, company)
    IN StrReplace(m2, <<"c","o","m","p","a","n","i","e","s">>, company)

\* r'\b(20\d{2})\b'
year_pattern == <<WordBoundary \o Lit(<<"2","0">>) \o Digit \o Digit \o WordBoundary>>

\* r'from.*to.*\d{4}'
from_to_pattern == <<Lit(<<"f","r","o","m">>) \o DotStar \o Lit(<<"t","o">>) \o DotStar \o Digit4>>

\* r'\d{4}.*to.*\d{4}'
year_to_year_pattern == <<Digit4 \o DotStar \o Lit(<<"t","o">>) \o DotStar \o Digit4>>

\* the body of "for year in years"
year_query(q, year) ==
    LET y1 == ReSub(from_to_pattern, <<"i","n"," ">> \o year, q)
    IN ReSub(year_to_year_pattern, year, y1)

\* the branches of decompose_query without the fallback "return [query]":
\* the sub-queries of the years found are returned even when there are fewer
\* than two
decompose_as_without_fallback(q, qt) ==
    IF qt = "simple" THEN <<q>>
    ELSE IF qt = "comparative"
    THEN [i \in 1..Len(companies) |-> modified_query(q, companies[i])] \o << >>
    ELSE LET years == ReFindAll(year_pattern, q)
         IN [i \in 1..Len(years) |-> year_query(q, years[i])] \o << >>

\* the branches of decompose_query on query_type (lines 48 to 77)
decompose_as(q, qt) ==
    IF qt = "simple" THEN <<q>>
    ELSE IF qt = "comparative"
    THEN [i \in 1..Len(companies) |-> modified_query(q, companies[i])] \o << >>
    ELSE LET years == ReFindAll(year_pattern, q)
         IN IF Len(years) >= 2
            THEN [i \in 1..Len(years) |-> year_query(q, years[i])] \o << >>
            ELSE <<q>>

decompose_query(q) == decompose_as(q, classify_query(q))

\* top_k=3 of search_and_extract_info
AGENT_TOP_K == 3

\* results[:2]: the hits whose text is combined, and the sources per sub-query
TOP_HITS == 2

\* financial_sentences[:2]
MAX_SENTENCES == 2

\* best_chunk['text'][:300]
ANSWER_CHARS == 300

\* chunk['text'][:200] and excerpt[:200]
EXCERPT_CHARS == 200

\* unique_sources[:5]
MAX_SOURCES == 5

NotFoundAnswer == <<"N","o"," ","r","e","l","e","v","a","n","t"," ","i","n","f","o","r","m","a","t","i","o","n"," ","f","o","u","n","d">>

\* r'\$[\d,]+|[\d.]+%|revenue|income|margin'
financial_pattern == <<
    Lit(<<"$">>) \o DigitCommaPlus,
    DigitDotPlus \o Lit(<<"%">>),
    Lit(<<"r","e","v","e","n","u","e">>),
    Lit(<<"i","n","c","o","m","e">>),
    Lit(<<"m","a","r","g","i","n">>) >>

\* re.search(pattern, sentence, re.IGNORECASE): the pattern's letters are
\* lower case, so it is searched in the lower-cased sentence
IsFinancial(sentence) == ReSearch(financial_pattern, Lower(sentence))

RECURSIVE StripEach(_, _)
StripEach(ss, k) ==
    IF k > Len(ss) THEN << >> ELSE <<Strip(ss[k])>> \o StripEach(ss, k + 1)

_extract_answer(q, text, results) ==
    IF results # << >>
    THEN LET sentences == Split(text, ".")
             financial_sentences ==
                 StripEach(SelectSeq(sentences, LAMBDA x : IsFinancial(x)), 1)
         IN IF financial_sentences # << >>
            THEN Join(Take(financial_sentences, MAX_SENTENCES), <<"."," ">>) \o <<".">>
            ELSE Take(results[1].chunk.text, ANSWER_CHARS) \o <<".",".",".">>
    ELSE <<"I","n","f","o","r","m","a","t","i","o","n"," ","n","o","t"," ","f","o","u","n","d"," ","i","n"," ","t","h","e"," ","a","v","a","i","l","a","b","l","e"," ","d","o","c","u","m","e","n","t","s",".">>

RECURSIVE Texts(_, _)
Texts(results, k) ==
    IF k > Len(results) THEN << >>
    ELSE <<results[k].chunk.text>> \o Texts(results, k + 1)

\* search_and_extract_info(query) given argsort's output in its search, with
\* self.chunks = cs
search_and_extract_info(q, order, cs) ==
    LET out == search(q, AGENT_TOP_K, order, cs)
    IN IF out.raised # ""
       THEN [raised |-> out.raised, found |-> FALSE, answer |-> << >>,
             results |-> << >>, source_chunks |-> 0]
       ELSE IF out.results = << >>
       THEN [raised |-> "", found |-> FALSE, answer |-> NotFoundAnswer,
             results |-> << >>, source_chunks |-> 0]
       ELSE LET combined_text == Join(Texts(Take(out.results, TOP_HITS), 1), <<" ">>)
            IN [raised |-> "", found |-> TRUE,
                answer |-> _extract_answer(q, combined_text, out.results),
                results |-> out.results,
                source_chunks |-> Len(out.results)]

RECURSIVE SubResults(_, _, _, _)
\* sub_results of the loop "for sub_query in sub_queries" from sub-query k
\* on, with self.chunks = cs; orders[k] is argsort's output in the search of
\* sub-query k
SubResults(sqs, orders, k, cs) ==
    IF k > Len(sqs) THEN << >>
    ELSE <<search_and_extract_info(sqs[k], orders[k], cs)>>
         \o SubResults(sqs, orders, k + 1,
                       chunks_after_search(sqs[k], AGENT_TOP_K, orders[k], cs))

RECURSIVE ChunksAfter(_, _, _, _)
\* self.chunks after that loop
ChunksAfter(sqs, orders, k, cs) ==
    IF k > Len(sqs) THEN cs
    ELSE ChunksAfter(sqs, orders, k + 1,
                     chunks_after_search(sqs[k], AGENT_TOP_K, orders[k], cs))

\* the character U+2022 of the bullet lines (the strings here are ASCII)
Bullet == "*"

RECURSIVE BulletLinesKeepingNotFound(_, _)
\* a bullet line for every result, found or not
BulletLinesKeepingNotFound(sub_results, k) ==
    IF k > Len(sub_results) THEN << >>
    ELSE <<Bullet, " ">> \o sub_results[k].answer \o <<"\n">>
         \o BulletLinesKeepingNotFound(sub_results, k + 1)

RECURSIVE BulletLines(_, _)
\* "for i, result in enumerate(sub_results): if result['found']: ..."
BulletLines(sub_results, k) ==
    IF k > Len(sub_results) THEN << >>
    ELSE (IF sub_results[k].found
          THEN <<Bullet, " ">> \o sub_results[k].answer \o <<"\n">>
          ELSE << >>) \o BulletLines(sub_results, k + 1)

RECURSIVE FoundAnswers(_, _)
\* [r['answer'] for r in sub_results if r['found']]
FoundAnswers(sub_results, k) ==
    IF k > Len(sub_results) THEN << >>
    ELSE (IF sub_results[k].found THEN <<sub_results[k].answer>> ELSE << >>)
         \o FoundAnswers(sub_results, k + 1)

\* synthesize_results(query, sub_results): [raised, answer]
synthesize_results(q, sub_results) ==
    IF Len(sub_results) = 1
    THEN [raised |-> "", answer |-> sub_results[1].answer]
    ELSE IF classify_query(q) = "comparative"
    THEN [raised |-> "",
          answer |-> <<"B","a","s","e","d"," ","o","n"," ","t","h","e"," ","f","i","l","i","n","g","s"," ","a","n","a","l","y","s","i","s",":">> \o <<"\n">> \o <<"\n">> \o BulletLines(sub_results, 1)
                     \o (IF Contains(Lower(q), <<"w","h","i","c","h"," ","c","o","m","p","a","n","y">>)
                            /\ Contains(Lower(q), <<"h","i","g","h","e","s","t">>)
                         THEN <<"\n">> \o <<"B","a","s","e","d"," ","o","n"," ","t","h","e"," ","a","v","a","i","l","a","b","l","e"," ","d","a","t","a",","," ","s","p","e","c","i","f","i","c"," ","c","o","m","p","a","r","i","s","o","n"," ","r","e","q","u","i","r","e","s"," ","d","e","t","a","i","l","e","d"," ","f","i","n","a","n","c","i","a","l"," ","a","n","a","l","y","s","i","s",".">>
                         ELSE << >>)]
    ELSE IF Contains(Lower(q), <<"g","r","o","w","t","h">>)
    THEN (IF Len(sub_results) < 2
          THEN [raised |-> "IndexError", answer |-> << >>]
          ELSE [raised |-> "",
                answer |-> <<"G","r","o","w","t","h"," ","a","n","a","l","y","s","i","s",":"," ">> \o sub_results[1].answer
                             \o <<" ","c","o","m","p","a","r","e","d"," ","t","o"," ">> \o sub_results[2].answer])
    ELSE [raised |-> "", answer |-> Join(FoundAnswers(sub_results, 1), <<";"," ">>)]

\* utils.create_source_reference(company, year, excerpt, section=section)
create_source_reference(company, year, excerpt, section) ==
    [company |-> company,
     year |-> year,
     excerpt |-> IF Len(excerpt) > EXCERPT_CHARS
                 THEN Take(excerpt, EXCERPT_CHARS) \o <<".",".",".">>
                 ELSE excerpt,
     page |-> "None",
     section |-> section,
     filing_type |-> "10-K"]

RECURSIVE SourcesOf(_, _)
\* the sources of one sub-query's results, from hit k on
SourcesOf(results, k) ==
    IF k > Len(results) THEN << >>
    ELSE <<create_source_reference(results[k].chunk.company,
                                   results[k].chunk.year,
                                   Take(results[k].chunk.text, EXCERPT_CHARS),
                                   results[k].chunk.section)>>
         \o SourcesOf(results, k + 1)

RECURSIVE AllSources(_, _)
\* "for result in sub_results: if result['found']: for chunk in
\* result['results'][:2]: ..."
AllSources(sub_results, k) ==
    IF k > Len(sub_results) THEN << >>
    ELSE (IF sub_results[k].found
          THEN SourcesOf(Take(sub_results[k].results, TOP_HITS), 1)
          ELSE << >>) \o AllSources(sub_results, k + 1)

SourceKey(source) == <<source.company, source.year, source.section>>

\* the loop over all_sources without the test on seen_sources
UniqueSourcesKeepingAll(all_sources, k, seen_sources) ==
    SubSeq(all_sources, k, Len(all_sources))

RECURSIVE UniqueSources(_, _, _)
\* "for source in all_sources: if key not in seen_sources: ..."
UniqueSources(all_sources, k, seen_sources) ==
    IF k > Len(all_sources) THEN << >>
    ELSE IF SourceKey(all_sources[k]) \notin seen_sources
    THEN <<all_sources[k]>>
         \o UniqueSources(all_sources, k + 1,
                          seen_sources \cup {SourceKey(all_sources[k])})
    ELSE UniqueSources(all_sources, k + 1, seen_sources)

Reasoning(n_sub_queries, n_sources) ==
    <<"P","r","o","c","e","s","s","e","d"," ">> \o IntToStr(n_sub_queries)
        \o <<" ","s","u","b","-","q","u","e","r","i","e","s"," ","a","n","d"," ","r","e","t","r","i","e","v","e","d"," ","i","n","f","o","r","m","a","t","i","o","n"," ","f","r","o","m"," ">>
        \o IntToStr(n_sources) \o <<" ","s","o","u","r","c","e","s"," ","a","c","r","o","s","s"," ","t","h","e"," ","f","i","l","i","n","g","s",".">>

\* utils.format_financial_response (the timestamp is left out)
format_financial_response(q, answer, reasoning, sqs, sources) ==
    [raised |-> "", query |-> q, answer |-> answer, reasoning |-> reasoning,
     sub_queries |-> sqs, sources |-> sources]

Raised(exception, q) ==
    [raised |-> exception, query |-> q, answer |-> << >>, reasoning |-> << >>,
     sub_queries |-> << >>, sources |-> << >>]

\* unique_sources without the slice
TopSourcesUncut(unique_sources) == unique_sources

\* unique_sources[:5]
TopSources(unique_sources) == Take(unique_sources, MAX_SOURCES)

\* answer_query from the synthesis on (lines 160 to 194), given the
\* sub-queries and the sub_results of the loop
answer_with(q, sqs, results) ==
    LET final == synthesize_results(q, results)
        unique_sources == UniqueSources(AllSources(results, 1), 1, {})
    IN IF \E i \in 1..Len(sqs) : results[i].raised # ""
       THEN Raised("IndexError", q)
       ELSE IF final.raised # "" THEN Raised(final.raised, q)
       ELSE format_financial_response(
                q, final.answer,
                Reasoning(Len(sqs), Len(unique_sources)),
                sqs, TopSources(unique_sources))

\* answer_query(query); orders[i] is argsort's output in the search of
\* sub-query i
answer_query(q, orders) ==
    LET sqs == decompose_query(q)
    IN answer_with(q, sqs, SubResults(sqs, orders, 1, chunks))

\* a search that is made again when it was made once
SearchCallsRetried(q) ==
    <<[callee |-> "search", query |-> q, n |-> AGENT_TOP_K],
      [callee |-> "search", query |-> q, n |-> AGENT_TOP_K]>>

\* The calls that search_and_extract_info(q) makes on the pipeline:
\* self.rag.search(query, top_k=3); n is the value of top_k.
SearchCallsOf(q) == <<[callee |-> "search", query |-> q, n |-> AGENT_TOP_K]>>

RECURSIVE RetrievalCalls(_, _)
\* the calls made by the loop "for sub_query in sub_queries" from sub-query
\* k on
RetrievalCalls(sqs, k) ==
    IF k > Len(sqs) THEN << >>
    ELSE SearchCallsOf(sqs[k]) \o RetrievalCalls(sqs, k + 1)

\* The calls of answer_query(q) after decompose_query gave sqs: the loop over
\* the sub-queries, then synthesize_results(query, sub_results); n is the
\* number of sub_results it is given.
CallsOf(q, sqs) ==
    RetrievalCalls(sqs, 1)
        \o <<[callee |-> "synthesize_results", query |-> q, n |-> Len(sqs)]>>

\* One output of argsort for each value that its slice [-3:] can take in the
\* search of a sub-query: search reads nothing else of argsort's output.
AgentSearchOrders(q) ==
    LET tops == {TopIndices(o, AGENT_TOP_K) : o \in SearchOrders(q)}
    IN {CHOOSE o \in SearchOrders(q) : TopIndices(o, AGENT_TOP_K) = t : t \in tops}

RECURSIVE OrdersFrom(_, _)
\* what argsort can return in the searches of the sub-queries sqs[k..]
OrdersFrom(sqs, k) ==
    IF k > Len(sqs) THEN {<< >>}
    ELSE LET rest == OrdersFrom(sqs, k + 1)
         IN UNION {{<<o>> \o r : r \in rest} : o \in AgentSearchOrders(sqs[k])}

\* what argsort can return in the searches of the sub-queries sqs
OrdersFor(sqs) == OrdersFrom(sqs, 1)

-----------------------------------------------------------------------------
(* main.py and config.py                                                   *)

\* the names that config.py defines
ConfigNames == {"PROJECT_ROOT", "DATA_DIR", "RAW_FILINGS_DIR", "PROCESSED_DIR",
                "VECTOR_STORE_DIR", "COMPANIES", "YEARS", "SEC_API_KEY",
                "SEC_API_BASE_URL", "CHUNK_SIZE", "CHUNK_OVERLAP",
                "MAX_CHUNKS_PER_QUERY", "EMBEDDING_MODEL", "EMBEDDING_DIMENSION",
                "LLM_CONFIG", "LOG_LEVEL", "LOG_FILE", "SAMPLE_QUERIES",
                "SYSTEM_PROMPTS"}

\* the names that rag_pipeline.py imports from config
ImportedNames == {"RAW_FILINGS_DIR", "PROCESSED_DATA_DIR", "VECTOR_STORE_DIR",
                  "EMBEDDING_MODEL", "TOP_K_RETRIEVAL"}

FallbackAnswer == <<"A","n"," ","e","r","r","o","r"," ","o","c","c","u","r","r","e","d"," ","w","h","i","l","e"," ","p","r","o","c","e","s","s","i","n","g"," ","t","h","e"," ","q","u","e","r","y",".">>

\* error_result of main for the exception e: str(e) is held as the
\* exception's name, and the reasoning as the prefix followed by it
error_result(q, e) ==
    [query |-> q,
     error |-> e,
     answer |-> FallbackAnswer,
     reasoning |-> <<<<"S","y","s","t","e","m"," ","e","r","r","o","r",":"," ">>, e>>,
     sub_queries |-> <<q>>,
     sources |-> << >>]

-----------------------------------------------------------------------------
(* Queries: up to MaxWords words of the vocabulary joined by blanks        *)

MaxWords == 3

Words == {
    <<"W","h","i","c","h"," ","c","o","m","p","a","n","y">>,
    <<"w","h","i","c","h"," ","c","o","m","p","a","n","y">>,
    <<"a","l","l"," ","t","h","r","e","e"," ","c","o","m","p","a","n","i","e","s">>,
    <<"h","i","g","h","e","s","t">>,
    <<"C","o","m","p","a","r","e">>,
    <<"g","r","o","w","t","h">>,
    <<"f","r","o","m"," ","2","0","2","2"," ","t","o"," ","2","0","2","3">>,
    <<"t","o">>,
    <<"2","0","2","2">>,
    <<"2","0","2","3">>,
    <<"1","9","9","9">> }

RECURSIVE SeqsUpTo(_, _)
SeqsUpTo(S, n) ==
    IF n = 0 THEN {<< >>}
    ELSE LET shorter == SeqsUpTo(S, n - 1)
         IN shorter \cup {Append(t, w) : t \in {u \in shorter : Len(u) = n - 1}, w \in S}

Queries == {Join(ws, <<" ">>) : ws \in SeqsUpTo(Words, MaxWords)}

\* the queries given to answer_query
MaxAgentWords == 2

\* the words of the vocabulary that classify_query, decompose_query and
\* synthesize_results tell apart when the query is answered
AgentWords == {
    <<"W","h","i","c","h"," ","c","o","m","p","a","n","y">>,
    <<"w","h","i","c","h"," ","c","o","m","p","a","n","y">>,
    <<"1","9","9","9"," ","t","o"," ","1","9","9","9">>,
    <<"a","l","l"," ","t","h","r","e","e"," ","c","o","m","p","a","n","i","e","s">>,
    <<"h","i","g","h","e","s","t">>,
    <<"C","o","m","p","a","r","e">>,
    <<"g","r","o","w","t","h">>,
    <<"f","r","o","m"," ","2","0","2","2"," ","t","o"," ","2","0","2","3">> }

AgentQueries == {Join(ws, <<" ">>) : ws \in SeqsUpTo(AgentWords, MaxAgentWords)}

-----------------------------------------------------------------------------

\* The pipeline as constructed, with the files an earlier run or the data
\* acquisition left
InitPipeline ==
    /\ model = "None"
    /\ embeddings = None
    /\ chunks = << >>
    /\ cache_file \in {None} \cup {Some(c) : c \in CacheFiles}
    /\ api_data_file \in {None} \cup {Some(d) : d \in ApiDataSets}
    /\ processed_file \in {None} \cup {Some(d) : d \in ProcessedDataSets}
    /\ last_build = NoBuild
    /\ last_search = NoSearch
    /\ query = << >>
    /\ query_type = "none"
    /\ sub_queries = << >>
    /\ response = NoResponse
    /\ last_sub_results = << >>
    /\ last_all_sources = << >>
    /\ last_calls = << >>
    /\ config = ConfigNames \cup ImportedNames
    /\ output = None
    /\ uncaught = ""
    /\ dated_file = None
    /\ latest_file = None
    /\ last_load = NoLoad
    /\ pc = "pipeline"

Build ==
    /\ \E force_rebuild \in BOOLEAN, write_ok \in BOOLEAN :
          BuildEmbeddings(force_rebuild, write_ok)
    /\ last_search' = NoSearch
    /\ UNCHANGED <<api_data_file, processed_file, agent_vars, main_vars,
                   acquire_vars>>

Search ==
    \E q \in SearchQueries, top_k \in TopKs :
        \E order \in SearchOrders(q) :
            /\ last_search' = SearchCall(q, top_k, order,
                                         search(q, top_k, order, chunks))
            /\ chunks' = chunks_after_search(q, top_k, order, chunks)
            /\ UNCHANGED <<model, embeddings, file_vars, last_build,
                           agent_vars, main_vars,
                   acquire_vars>>

\* the data acquisition, or the user, writes or removes the source files
ChangeSourceData ==
    /\ \/ /\ api_data_file' \in ({None} \cup {Some(d) : d \in ApiDataSets}) \ {api_data_file}
          /\ UNCHANGED processed_file
       \/ /\ processed_file' \in ({None} \cup {Some(d) : d \in ProcessedDataSets}) \ {processed_file}
          /\ UNCHANGED api_data_file
    /\ last_build' = NoBuild
    /\ last_search' = NoSearch
    /\ UNCHANGED <<rag_vars, cache_file, agent_vars, main_vars,
                   acquire_vars>>

RemoveCache ==
    /\ cache_file # None
    /\ cache_file' = None
    /\ last_build' = NoBuild
    /\ last_search' = NoSearch
    /\ UNCHANGED <<rag_vars, api_data_file, processed_file, agent_vars, main_vars,
                   acquire_vars>>

NextPipeline == Build \/ Search \/ ChangeSourceData \/ RemoveCache

SpecPipeline == InitPipeline /\ [][NextPipeline]_vars

-----------------------------------------------------------------------------

\* decompose_query applied to one query
InitDecompose ==
    /\ model = "None"
    /\ embeddings = None
    /\ chunks = << >>
    /\ cache_file = None
    /\ api_data_file = None
    /\ processed_file = None
    /\ last_build = NoBuild
    /\ last_search = NoSearch
    /\ query \in Queries
    /\ query_type = "none"
    /\ sub_queries = << >>
    /\ response = NoResponse
    /\ last_sub_results = << >>
    /\ last_all_sources = << >>
    /\ last_calls = << >>
    /\ config = ConfigNames \cup ImportedNames
    /\ output = None
    /\ uncaught = ""
    /\ dated_file = None
    /\ latest_file = None
    /\ last_load = NoLoad
    /\ pc = "start"

DecomposeQuery ==
    /\ pc = "start"
    /\ query_type' = classify_query(query)
    /\ sub_queries' = decompose_as(query, query_type')
    /\ pc' = "decomposed"
    /\ UNCHANGED <<rag_vars, file_vars, last_build, last_search, query,
                   response, last_sub_results, last_all_sources, last_calls,
                   main_vars,
                   acquire_vars>>

NextDecompose == DecomposeQuery

SpecDecompose == InitDecompose /\ [][NextDecompose]_vars

-----------------------------------------------------------------------------

\* main.py: one process, one query (sys.argv[1]); the files are what earlier
\* runs left.  config.py is the file of the repository, or one that also
\* defines the names that rag_pipeline.py imports from it.
InitAgent ==
    /\ model = "None"
    /\ embeddings = None
    /\ chunks = << >>
    /\ cache_file \in {None, Some(CacheOf(Corpus(MaxChunks - 1)))}
    /\ api_data_file \in {None, Some(<<Corpus(MaxAgentChunks)>>)}
    /\ processed_file = None
    /\ last_build = NoBuild
    /\ last_search = NoSearch
    /\ query \in AgentQueries
    /\ query_type = "none"
    /\ sub_queries = << >>
    /\ response = NoResponse
    /\ last_sub_results = << >>
    /\ last_all_sources = << >>
    /\ last_calls = << >>
    /\ config \in {ConfigNames, ConfigNames \cup ImportedNames}
    /\ output = None
    /\ uncaught = ""
    /\ dated_file = None
    /\ latest_file = None
    /\ last_load = NoLoad
    /\ pc = "new"

\* "from agent_system import SimpleFinancialAgent" (main.py line 4), which
\* runs "from config import ..." of rag_pipeline.py: a name that config.py
\* does not define raises ImportError, outside the try of main
Import ==
    /\ pc = "new"
    /\ IF ImportedNames \subseteq config
       THEN /\ pc' = "imported"
            /\ UNCHANGED uncaught
       ELSE /\ pc' = "crashed"
            /\ uncaught' = "ImportError"
    /\ UNCHANGED <<rag_vars, file_vars, last_build, last_search, query,
                   query_type, sub_queries, response, last_sub_results,
                   last_all_sources, last_calls, config, output,
                   acquire_vars>>

\* "agent = SimpleFinancialAgent()" in the try of main: __init__ calls
\* build_embeddings(); an exception is caught by main, which prints
\* error_result
Construct ==
    /\ pc = "imported"
    /\ \E write_ok \in BOOLEAN : BuildEmbeddings(FALSE, write_ok)
    /\ IF last_build'.raised = ""
       THEN /\ pc' = "ready"
            /\ UNCHANGED output
       ELSE /\ pc' = "reported"
            /\ output' = Some(error_result(query, last_build'.raised))
    /\ UNCHANGED <<api_data_file, processed_file, last_search, query,
                   query_type, sub_queries, response, last_sub_results,
                   last_all_sources, last_calls, config, uncaught,
                   acquire_vars>>

\* "result = agent.answer_query(query)" and the print of the result, or of
\* error_result when answer_query raised
AnswerQuery ==
    /\ pc = "ready"
    /\ query_type' = classify_query(query)
    /\ sub_queries' = decompose_as(query, query_type')
    /\ \E orders \in OrdersFor(sub_queries') :
          /\ last_sub_results' = SubResults(sub_queries', orders, 1, chunks)
          /\ chunks' = ChunksAfter(sub_queries', orders, 1, chunks)
    /\ last_all_sources' = AllSources(last_sub_results', 1)
    /\ last_calls' = CallsOf(query, sub_queries')
    /\ response' = answer_with(query, sub_queries', last_sub_results')
    /\ output' = Some(IF response'.raised = "" THEN response'
                      ELSE error_result(query, response'.raised))
    /\ pc' = "answered"
    /\ UNCHANGED <<model, embeddings, file_vars, last_build, last_search,
                   query, config, uncaught, acquire_vars>>

NextAgent == Import \/ Construct \/ AnswerQuery

SpecAgent == InitAgent /\ [][NextAgent]_vars

-----------------------------------------------------------------------------
(* synthesize_results as a function of its arguments                       *)

\* what search_and_extract_info returns when the search gave the i-th chunk
\* of the corpus
FoundResult(i) ==
    LET results == SearchResults(<<1>>, <<1>>, <<ChunkAt(i)>>)
    IN [raised |-> "", found |-> TRUE,
        answer |-> _extract_answer(<< >>, ChunkAt(i).text, results),
        results |-> results,
        source_chunks |-> Len(results)]

\* what search_and_extract_info returns when the search gave nothing
NotFoundResult ==
    [raised |-> "", found |-> FALSE, answer |-> NotFoundAnswer,
     results |-> << >>, source_chunks |-> 0]

ResultPool == {FoundResult(1), FoundResult(3), NotFoundResult}

MaxSubResults == 3

\* the queries given to synthesize_results: the words that its tests read
SynthesisWords == {
    <<"W","h","i","c","h"," ","c","o","m","p","a","n","y">>,
    <<"w","h","i","c","h"," ","c","o","m","p","a","n","y">>,
    <<"h","i","g","h","e","s","t">>,
    <<"C","o","m","p","a","r","e">>,
    <<"g","r","o","w","t","h">> }

SynthesisQueries ==
    {Join(ws, <<" ">>) : ws \in SeqsUpTo(SynthesisWords, MaxAgentWords)}

\* the Response Record's fields that synthesize_results decides
SynthesisOf(q, out) ==
    [NoResponse EXCEPT !.query = q, !.raised = out.raised, !.answer = out.answer]

InitSynthesize ==
    /\ model = "None"
    /\ embeddings = None
    /\ chunks = << >>
    /\ cache_file = None
    /\ api_data_file = None
    /\ processed_file = None
    /\ last_build = NoBuild
    /\ last_search = NoSearch
    /\ query \in SynthesisQueries
    /\ query_type = "none"
    /\ sub_queries = << >>
    /\ response = NoResponse
    /\ last_sub_results \in SeqsUpTo(ResultPool, MaxSubResults)
    /\ last_all_sources = << >>
    /\ last_calls = << >>
    /\ config = ConfigNames \cup ImportedNames
    /\ output = None
    /\ uncaught = ""
    /\ dated_file = None
    /\ latest_file = None
    /\ last_load = NoLoad
    /\ pc = "synthesis"

Synthesize ==
    /\ pc = "synthesis"
    /\ query_type' = classify_query(query)
    /\ response' = SynthesisOf(query, synthesize_results(query, last_sub_results))
    /\ pc' = "synthesized"
    /\ UNCHANGED <<rag_vars, file_vars, last_build, last_search, query,
                   sub_queries, last_sub_results, last_all_sources, last_calls,
                   main_vars,
                   acquire_vars>>

NextSynthesize == Synthesize

SpecSynthesize == InitSynthesize /\ [][NextSynthesize]_vars

-----------------------------------------------------------------------------
(* sec_downloader.py: download_all_data, and the load that follows it      *)

\* what download_all_data can collect in all_data: no filing, one or two
DownloadedSets == {<< >>, << <<ChunkAt(4)>> >>, << <<ChunkAt(4)>>, <<ChunkAt(6)>> >>}

InitAcquire ==
    /\ model = "None"
    /\ embeddings = None
    /\ chunks = << >>
    /\ cache_file = None
    /\ api_data_file \in {None} \cup {Some(d) : d \in ApiDataSets}
    /\ processed_file \in {None} \cup {Some(d) : d \in ProcessedDataSets}
    /\ last_build = NoBuild
    /\ last_search = NoSearch
    /\ query = << >>
    /\ query_type = "none"
    /\ sub_queries = << >>
    /\ response = NoResponse
    /\ last_sub_results = << >>
    /\ last_all_sources = << >>
    /\ last_calls = << >>
    /\ config = ConfigNames \cup ImportedNames
    /\ output = None
    /\ uncaught = ""
    /\ dated_file = None
    /\ latest_file = None
    /\ last_load = NoLoad
    /\ pc = "acquire"

\* download_all_data: "if all_data:" it saves the set twice; save_json logs
\* a failure to write and returns
DownloadAllData ==
    /\ \E all_data \in DownloadedSets, dated_ok \in BOOLEAN, latest_ok \in BOOLEAN :
          /\ dated_file' = IF all_data # << >> /\ dated_ok
                           THEN Some(all_data) ELSE dated_file
          /\ latest_file' = IF all_data # << >> /\ latest_ok
                            THEN Some(all_data) ELSE latest_file
    /\ last_load' = NoLoad
    /\ UNCHANGED <<rag_vars, file_vars, last_build, last_search, agent_vars,
                   main_vars>>

\* a call of load_processed_data
LoadProcessedData ==
    /\ last_load' = [called |-> TRUE, source |-> load_source,
                     chunks |-> load_processed_data]
    /\ UNCHANGED <<rag_vars, file_vars, last_build, last_search, agent_vars,
                   main_vars, dated_file, latest_file>>

NextAcquire == DownloadAllData \/ LoadProcessedData

SpecAcquire == InitAcquire /\ [][NextAcquire]_vars

-----------------------------------------------------------------------------
(* The claims about the pipeline, checked under SpecPipeline               *)

\* the position of index idx in argsort's output
PositionIn(order, idx) == CHOOSE p \in 1..Len(order) : order[p] = idx

Returned == last_search.called /\ last_search.raised = ""

Built == model # "None" /\ embeddings # None

\* C1: in every reachable state the index is unbuilt (no embeddings) or it
\* has as many embedding rows as chunks and row i is the encoding of the text
\* of chunk i.
C1_IndexAlignment ==
    \/ embeddings = None
    \/ /\ Len(embeddings[1]) = Len(chunks)
       /\ \A i \in 1..Len(chunks) : embeddings[1][i] = Encode(chunks[i].text)

\* C4: for a built index of n chunks and every integer top_k, 0 and negative
\* values included, search returns at most min(top_k, n) results.
C4_TopKBound ==
    (Built /\ Returned) =>
        Len(last_search.results) <= Min(last_search.top_k, Len(chunks))

\* C5: the results of search are non-increasing in similarity_score, and
\* each score is the similarity of the query with the chunk it comes with.
C5_SimilarityOrdering ==
    (Built /\ Returned) =>
        /\ \A i, j \in 1..Len(last_search.results) :
              i < j => last_search.results[i].similarity_score
                          >= last_search.results[j].similarity_score
        /\ \A i \in 1..Len(last_search.results) :
              last_search.results[i].similarity_score =
                  CosineSimilarity(Encode(last_search.query),
                                   Encode(last_search.results[i].chunk.text))

\* a search of a built index that returned chunks of different scores
C5_Witness ==
    /\ Built /\ Returned
    /\ \E i, j \in 1..Len(last_search.results) :
          last_search.results[i].similarity_score
              > last_search.results[j].similarity_score

\* C6 as stated: of two returned chunks with equal similarity, the one with
\* the lower index in the store comes first.
C6_TiesInChunkOrder ==
    (Built /\ Returned) =>
        \A i, j \in 1..Len(last_search.results) :
            (/\ i < j
             /\ last_search.results[i].similarity_score
                  = last_search.results[j].similarity_score)
            => last_search.results[i].idx < last_search.results[j].idx

\* C6 as amended: two returned chunks with equal similarity come in the
\* reverse of the order in which argsort placed them (argsort's order of equal
\* values is not fixed, so no order by chunk index is guaranteed).
C6_TiesReverseArgsort ==
    (Built /\ Returned) =>
        \A i, j \in 1..Len(last_search.results) :
            (/\ i < j
             /\ last_search.results[i].similarity_score
                  = last_search.results[j].similarity_score)
            => PositionIn(last_search.order, last_search.results[i].idx)
                 > PositionIn(last_search.order, last_search.results[j].idx)

\* two chunks of equal similarity returned, the one with the higher index
\* first
C6_Witness ==
    /\ Built /\ Returned
    /\ \E i, j \in 1..Len(last_search.results) :
          /\ i < j
          /\ last_search.results[i].similarity_score
               = last_search.results[j].similarity_score
          /\ last_search.results[i].idx > last_search.results[j].idx

\* a step of build_embeddings that returned without raising
BuildReturned ==
    last_build'.called /\ ~last_search'.called /\ last_build'.raised = ""

\* the write of the cache file was attempted and failed
CacheWriteFailed ==
    last_build.called /\ last_build.encoded > 0 /\ ~last_build.wrote

\* C16: when the write of the cache file fails, build_embeddings returns
\* normally (no exception) and leaves model, embeddings and chunks set.
C16_CacheWriteFailureNonFatal ==
    CacheWriteFailed
    => /\ last_build.raised = ""
       /\ Built
       /\ Len(embeddings[1]) = Len(chunks)

\* C17: build_embeddings with a cache file and force_rebuild false loads
\* model, embeddings and chunks from the cache, encodes nothing and writes
\* nothing; otherwise, with chunks to process, it encodes every chunk and
\* then writes the snapshot of what it built, so that after every build that
\* returned with chunks the cache file holds exactly the state in memory,
\* which is what a later build without force_rebuild loads.
C17_CacheLoadOrRebuild ==
    /\ [][BuildReturned =>
            IF cache_file # None /\ ~last_build'.force_rebuild
            THEN /\ model' = cache_file[1].model
                 /\ embeddings' = Some(cache_file[1].embeddings)
                 /\ chunks' = cache_file[1].chunks
                 /\ last_build'.encoded = 0
                 /\ ~last_build'.wrote
                 /\ cache_file' = cache_file
            ELSE chunks' # << >> =>
                 /\ last_build'.encoded = Len(chunks')
                 /\ embeddings' = Some(EncodeAll(chunks'))
                 /\ last_build'.wrote
                 /\ cache_file' = Some([model |-> model',
                                        embeddings |-> embeddings'[1],
                                        chunks |-> chunks'])]_vars
    /\ []((last_build.called /\ last_build.raised = "" /\ chunks # << >>)
            => /\ cache_file # None
               /\ cache_file[1].model = model
               /\ Some(cache_file[1].embeddings) = embeddings
               /\ cache_file[1].chunks = chunks)

\* a build without force_rebuild that loaded the cache file: the state in
\* memory is the snapshot, nothing was encoded or written
C17_Witness ==
    /\ last_build.called
    /\ ~last_build.force_rebuild
    /\ last_build.encoded = 0
    /\ ~last_build.wrote
    /\ chunks # << >>
    /\ cache_file # None
    /\ cache_file[1].chunks = chunks
    /\ Some(cache_file[1].embeddings) = embeddings

\* C20: search on an unbuilt index (model or embeddings not set) returns an
\* empty sequence for every query and top_k, raises nothing and changes
\* neither the pipeline nor the files.
C20_UnbuiltSearchEmpty ==
    [][(last_search'.called /\ (model = "None" \/ embeddings = None))
        => /\ last_search'.results = << >>
           /\ last_search'.raised = ""
           /\ UNCHANGED <<rag_vars, file_vars>>]_vars

\* a search with a non-empty query and a positive top_k on the unbuilt index
C20_Witness ==
    /\ last_search.called
    /\ ~Built
    /\ last_search.query # << >>
    /\ last_search.top_k > 0
    /\ last_search.results = << >>
    /\ last_search.raised = ""

-----------------------------------------------------------------------------
(* The claims about decompose_query, checked under SpecDecompose           *)

Decomposed == pc = "decomposed"

MatchesAny(patterns, s) == \E k \in 1..Len(patterns) : ReSearch(patterns[k], s)

GenericPhrases == {<<"w","h","i","c","h"," ","c","o","m","p","a","n","y">>, <<"a","l","l"," ","t","h","r","e","e"," ","c","o","m","p","a","n","i","e","s">>, <<"c","o","m","p","a","n","i","e","s">>}

TrackedEntities == <<<<"M","i","c","r","o","s","o","f","t">>, <<"G","o","o","g","l","e">>, <<"N","V","I","D","I","A">>>>

\* the distinct years that r'\b(20\d{2})\b' finds in the query
DistinctYears(q) ==
    LET years == ReFindAll(year_pattern, q)
    IN {years[i] : i \in 1..Len(years)}

\* C3: for a comparative query that contains a generic phrase in any letter
\* case, sub-query i contains the i-th entity name and none of the generic
\* phrases any more.
C3_GenericPhraseReplaced ==
    (/\ Decomposed
     /\ query_type = "comparative"
     /\ \E phrase \in GenericPhrases : Contains(Lower(query), phrase))
    => /\ Len(sub_queries) = Len(TrackedEntities)
       /\ \A i \in 1..Len(sub_queries) :
             /\ Contains(sub_queries[i], TrackedEntities[i])
             /\ \A phrase \in GenericPhrases :
                   ~Contains(Lower(sub_queries[i]), phrase)

\* C7: a query that matches a comparative pattern is classified comparative,
\* also when it matches a multi-year pattern; multi_year is returned only
\* when no comparative pattern and some multi-year pattern matches, simple
\* only when no pattern of either family matches.
C7_ClassificationPrecedence ==
    Decomposed =>
        LET comparative == MatchesAny(comparative_patterns, Lower(query))
            multi_year == MatchesAny(multi_year_patterns, Lower(query))
        IN /\ comparative => query_type = "comparative"
           /\ query_type = "multi_year" => (~comparative /\ multi_year)
           /\ query_type = "simple" => (~comparative /\ ~multi_year)
           /\ query_type \in {"comparative", "multi_year", "simple"}

\* a query that matches both families, classified comparative
C7_Witness ==
    /\ Decomposed
    /\ MatchesAny(comparative_patterns, Lower(query))
    /\ MatchesAny(multi_year_patterns, Lower(query))
    /\ query_type = "comparative"

\* C8: decompose_query returns a non-empty sequence for every query, and
\* exactly [query] for a query classified simple.
C8_DecompositionTotality ==
    Decomposed =>
        /\ Len(sub_queries) >= 1
        /\ query_type = "simple" => sub_queries = <<query>>

\* a simple query decomposed into the query itself
C8_Witness ==
    /\ Decomposed
    /\ query # << >>
    /\ query_type = "simple"
    /\ sub_queries = <<query>>

\* C9: a comparative query gives exactly 3 sub-queries, sub-query i being
\* the query rewritten for the i-th of Microsoft, Google, NVIDIA.
C9_ComparativeCardinality ==
    (Decomposed /\ query_type = "comparative") =>
        /\ Len(sub_queries) = 3
        /\ \A i \in 1..3 :
              sub_queries[i] = modified_query(query, TrackedEntities[i])

\* a comparative query decomposed into three different sub-queries, each
\* naming its entity
C9_Witness ==
    /\ Decomposed
    /\ query_type = "comparative"
    /\ Len(sub_queries) = 3
    /\ \A i \in 1..3 : Contains(sub_queries[i], TrackedEntities[i])
    /\ sub_queries[1] # sub_queries[2]
    /\ sub_queries[2] # sub_queries[3]

\* C10: a multi-year query that mentions exactly 2 distinct 20XX years, each
\* possibly more than once, gives exactly 2 sub-queries.
C10_TwoYearsTwoSubQueries ==
    (/\ Decomposed
     /\ query_type = "multi_year"
     /\ Cardinality(DistinctYears(query)) = 2)
    => Len(sub_queries) = 2

\* C11: a multi-year query in which fewer than 2 distinct 20XX years are
\* found (none, one, or one year written several times) falls back to the
\* single sub-query [query].
C11_FewerThanTwoYearsFallback ==
    (/\ Decomposed
     /\ query_type = "multi_year"
     /\ Cardinality(DistinctYears(query)) < 2)
    => sub_queries = <<query>>

\* the years of the query in the order in which re.findall returns them
ExtractedYears == ReFindAll(year_pattern, query)

\* C12: for a multi-year query with 2 or more extracted years, sub-query i
\* contains the i-th extracted year, and the sub-queries of two different
\* years are different strings.
C12_SubQueryAnchoredOnYear ==
    (/\ Decomposed
     /\ query_type = "multi_year"
     /\ Len(ExtractedYears) >= 2)
    => /\ Len(sub_queries) = Len(ExtractedYears)
       /\ \A i \in 1..Len(sub_queries) :
              Contains(sub_queries[i], ExtractedYears[i])
       /\ \A i, j \in 1..Len(sub_queries) :
              ExtractedYears[i] # ExtractedYears[j]
                  => sub_queries[i] # sub_queries[j]

-----------------------------------------------------------------------------
(* The claims about answer_query, checked under SpecAgent                  *)

Answered == pc = "answered"

\* C2: with an empty chunk store and no cache (the index unbuilt),
\* answer_query returns for every query the fixed not-found answer and no
\* sources.
C2_NotFoundOnEmptyStore ==
    (/\ Answered
     /\ chunks = << >>
     /\ cache_file = None
     /\ ~Built)
    => /\ response.raised = ""
       /\ response.answer = NotFoundAnswer
       /\ response.sources = << >>

\* the number of results of sub-result k that answer_query turns into
\* sources
HitsUsed(k) ==
    IF last_sub_results[k].found
    THEN Min(TOP_HITS, Len(last_sub_results[k].results))
    ELSE 0

RECURSIVE SourcesBefore(_)
\* the number of sources that the sub-results before k gave
SourcesBefore(k) ==
    IF k <= 1 THEN 0 ELSE SourcesBefore(k - 1) + HitsUsed(k - 1)

ReturnedRecord == Answered /\ response.raised = ""

KeyOf(r) == <<r.company, r.year, r.section>>

\* the position in all_sources of the first source with this key
FirstSeen(key) ==
    CHOOSE p \in 1..Len(last_all_sources) :
        /\ KeyOf(last_all_sources[p]) = key
        /\ \A o \in 1..(p - 1) : KeyOf(last_all_sources[o]) # key

DistinctKeys == {KeyOf(last_all_sources[p]) : p \in 1..Len(last_all_sources)}

\* C13: the sources of a Response Record hold no two entries with the same
\* (company, year, section), each is the first source seen with its key, and
\* they come in first-seen order, the sources being seen in sub-query order
\* and then by rank within the top 2 of the sub-query.
C13_SourceDedupFirstSeen ==
    ReturnedRecord =>
        /\ Len(last_all_sources) = SourcesBefore(Len(last_sub_results) + 1)
        /\ \A k \in 1..Len(last_sub_results) : \A r \in 1..HitsUsed(k) :
              KeyOf(last_all_sources[SourcesBefore(k) + r])
                  = KeyOf(last_sub_results[k].results[r].chunk)
        /\ \A i, j \in 1..Len(response.sources) :
              i # j => KeyOf(response.sources[i]) # KeyOf(response.sources[j])
        /\ \A i \in 1..Len(response.sources) :
              /\ KeyOf(response.sources[i]) \in DistinctKeys
              /\ response.sources[i]
                     = last_all_sources[FirstSeen(KeyOf(response.sources[i]))]
        /\ \A i, j \in 1..Len(response.sources) :
              i < j => FirstSeen(KeyOf(response.sources[i]))
                           < FirstSeen(KeyOf(response.sources[j]))

\* a record for which two sub-queries retrieved the same section: a
\* duplicate was dropped, and several sources remain
C13_Witness ==
    /\ ReturnedRecord
    /\ Len(sub_queries) >= 2
    /\ Cardinality(DistinctKeys) < Len(last_all_sources)
    /\ Len(response.sources) >= 3

\* C14: the sources of a Response Record are at most 5, and they are the
\* first 5 (or all, when there are fewer) of the deduplicated sources:
\* entry i is the source of the i-th distinct key seen.
C14_SourceCap ==
    ReturnedRecord =>
        /\ Len(response.sources) <= 5
        /\ Len(response.sources) = Min(5, Cardinality(DistinctKeys))
        /\ \A i \in 1..Len(response.sources) :
              /\ KeyOf(response.sources[i]) \in DistinctKeys
              /\ Cardinality({KeyOf(last_all_sources[p]) :
                     p \in 1..FirstSeen(KeyOf(response.sources[i]))}) = i

\* a record for which more than 5 distinct sections were retrieved
C14_Witness ==
    /\ ReturnedRecord
    /\ Cardinality(DistinctKeys) > 5
    /\ Len(response.sources) = 5

Ellipsis == <<".", ".", ".">>

\* C15: the source reference made for a retrieved chunk carries, when the
\* chunk's text is longer than 200 characters, the first 200 characters
\* followed by an ellipsis, and otherwise the text itself.
C15_ExcerptWithEllipsis ==
    ReturnedRecord =>
        \A k \in 1..Len(last_sub_results) : \A r \in 1..HitsUsed(k) :
            LET text == last_sub_results[k].results[r].chunk.text
                excerpt == last_all_sources[SourcesBefore(k) + r].excerpt
            IN IF Len(text) > EXCERPT_CHARS
               THEN excerpt = SubSeq(text, 1, EXCERPT_CHARS) \o Ellipsis
               ELSE excerpt = text

\* the program ended after a step of loading, initialising or answering
\* failed
StepFailed ==
    \/ pc = "crashed"
    \/ pc = "reported"
    \/ pc = "answered" /\ response.raised # ""

\* C18: when a step of loading, initialising the agent or answering fails,
\* main prints a record with an error field, the fallback answer,
\* sub_queries = [query] and no sources, and no exception leaves the program.
C18_EntryPointReportsFailure ==
    StepFailed =>
        /\ uncaught = ""
        /\ output # None
        /\ "error" \in DOMAIN output[1]
        /\ output[1].answer = FallbackAnswer
        /\ output[1].sub_queries = <<query>>
        /\ output[1].sources = << >>

\* C19: a call of answer_query, with the searches it makes, leaves model,
\* embeddings and chunks as they were; the chunk records it returns equal
\* the stored ones, and no stored chunk has a similarity_score.
C19_StoreUnchangedByQueries ==
    /\ [][pc' = "answered" =>
            /\ model' = model
            /\ embeddings' = embeddings
            /\ chunks' = chunks
            /\ \A k \in 1..Len(last_sub_results') :
                  \A r \in 1..Len(last_sub_results'[k].results) :
                      last_sub_results'[k].results[r].chunk
                          = chunks[last_sub_results'[k].results[r].idx]]_vars
    /\ [](\A i \in 1..Len(chunks) : "similarity_score" \notin DOMAIN chunks[i])

\* an answered query whose searches returned scored results
C19_Witness ==
    /\ ReturnedRecord
    /\ Len(sub_queries) >= 2
    /\ chunks # << >>
    /\ \A k \in 1..Len(last_sub_results) :
          /\ last_sub_results[k].found
          /\ Len(last_sub_results[k].results) = AGENT_TOP_K

\* C21: answer_query makes exactly one search call, with top_k = 3, for each
\* sub-query, in the order of the decomposition, and all of them before the
\* one call of synthesize_results, which is given one result per sub-query;
\* a simple query causes exactly one search call; the record's sub_queries
\* is the decomposition of the query.
C21_OneRetrievalPerSubQuery ==
    ReturnedRecord =>
        LET n == Len(sub_queries)
        IN /\ response.sub_queries = sub_queries
           /\ Len(last_sub_results) = n
           /\ Len(last_calls) = n + 1
           /\ \A k \in 1..n :
                 last_calls[k] = [callee |-> "search", query |-> sub_queries[k], n |-> 3]
           /\ last_calls[n + 1] = [callee |-> "synthesize_results", query |-> query, n |-> n]
           /\ query_type = "simple" =>
                 Cardinality({k \in 1..Len(last_calls) : last_calls[k].callee = "search"}) = 1

\* a comparative query answered on a built index: three different
\* sub-queries, three searches
C21_Witness ==
    /\ ReturnedRecord
    /\ Built
    /\ query_type = "comparative"
    /\ Len(last_calls) = 4
    /\ last_calls[1].callee = "search"
    /\ last_calls[1].query # last_calls[2].query
    /\ last_calls[3].query = sub_queries[3]

\* synthesize_results took the branch of line 140: several or no results,
\* a query that is not comparative and contains "growth"
GrowthBranch ==
    /\ Len(last_sub_results) # 1
    /\ query_type # "comparative"
    /\ Contains(Lower(query), <<"g","r","o","w","t","h">>)

\* C23: in answer_query the growth branch of synthesize_results is reached
\* only with two results or more, so that reading sub_results[0] and
\* sub_results[1] does not fail: no answered query raised, and the growth
\* answer combines the first and the second result.
C23_GrowthBranchHasTwoResults ==
    Answered =>
        /\ response.raised = ""
        /\ GrowthBranch =>
              /\ Len(last_sub_results) >= 2
              /\ response.answer =
                     <<"G","r","o","w","t","h"," ","a","n","a","l","y","s","i","s",":"," ">>
                         \o last_sub_results[1].answer
                         \o <<" ","c","o","m","p","a","r","e","d"," ","t","o"," ">>
                         \o last_sub_results[2].answer

\* a multi-year query with "growth" answered from two results
C23_Witness ==
    /\ Answered
    /\ response.raised = ""
    /\ GrowthBranch
    /\ query_type = "multi_year"
    /\ Len(last_sub_results) = 2
    /\ last_sub_results[1].found

\* C24: the reasoning of a Response Record states the number of its
\* sub_queries as the sub-query count and the number of entries of its
\* sources as the source count.
C24_ReasoningCounts ==
    ReturnedRecord =>
        response.reasoning
            = Reasoning(Len(response.sub_queries), Len(response.sources))

-----------------------------------------------------------------------------
(* The claims about synthesize_results, checked under SpecSynthesize       *)

\* synthesize_results returned for a comparative query and several results
ComparativeSynthesis ==
    /\ pc = "synthesized"
    /\ response.raised = ""
    /\ query_type = "comparative"
    /\ Len(last_sub_results) > 1

SynthesisHeader ==
    <<"B","a","s","e","d"," ","o","n"," ","t","h","e"," ","f","i","l","i","n","g","s"," ","a","n","a","l","y","s","i","s",":","\n","\n">>

DisclaimerSentence ==
    <<"B","a","s","e","d"," ","o","n"," ","t","h","e"," ","a","v","a","i","l","a","b","l","e"," ","d","a","t","a",","," ","s","p","e","c","i","f","i","c"," ","c","o","m","p","a","r","i","s","o","n"," ","r","e","q","u","i","r","e","s"," ","d","e","t","a","i","l","e","d"," ","f","i","n","a","n","c","i","a","l"," ","a","n","a","l","y","s","i","s",".">>

WhichCompany == <<"w","h","i","c","h"," ","c","o","m","p","a","n","y">>

Highest == <<"h","i","g","h","e","s","t">>

\* the lines of the answer after the header
AnswerLines ==
    Split(SubSeq(response.answer, Len(SynthesisHeader) + 1, Len(response.answer)),
          "\n")

\* the results that were found, in result order
FoundResults == LET IsFound(r) == r.found IN SelectSeq(last_sub_results, IsFound)

\* The answer is the header, then one bullet line per found result in result
\* order, then the disclaimer sentence (after an empty line) when wanted.
SynthesisIs(disclaimer) ==
    /\ Len(response.answer) >= Len(SynthesisHeader)
    /\ SubSeq(response.answer, 1, Len(SynthesisHeader)) = SynthesisHeader
    /\ Len(AnswerLines) = Len(FoundResults) + (IF disclaimer THEN 2 ELSE 1)
    /\ \A k \in 1..Len(FoundResults) :
          AnswerLines[k] = <<Bullet, " ">> \o FoundResults[k].answer
    /\ AnswerLines[Len(FoundResults) + 1] = << >>
    /\ disclaimer => AnswerLines[Len(FoundResults) + 2] = DisclaimerSentence

\* C22 as stated: for a comparative query and more than one result the answer
\* is the header and one bullet line per found result, in result order, and
\* the disclaimer sentence is appended if and only if the query contains
\* both "which company" and "highest".
C22_ComparativeSynthesis ==
    ComparativeSynthesis =>
        SynthesisIs(Contains(query, WhichCompany) /\ Contains(query, Highest))

\* C22 as amended: the same, the disclaimer sentence being appended if and
\* only if the lower-cased query contains both "which company" and "highest".
C22_ComparativeSynthesisAnyCase ==
    ComparativeSynthesis =>
        SynthesisIs(Contains(Lower(query), WhichCompany)
                    /\ Contains(Lower(query), Highest))

\* a comparative query with a found, a not-found and a found result, and the
\* disclaimer sentence at the end
C22_Witness ==
    /\ ComparativeSynthesis
    /\ Len(last_sub_results) = 3
    /\ last_sub_results[1].found
    /\ ~last_sub_results[2].found
    /\ last_sub_results[3].found
    /\ last_sub_results[1] # last_sub_results[3]
    /\ Len(AnswerLines) = 4
    /\ AnswerLines[4] = DisclaimerSentence

-----------------------------------------------------------------------------
(* The claim about the data acquisition, checked under SpecAcquire         *)

\* C25: once download_all_data has saved an API document set, a later
\* load_processed_data takes the API branch and returns the chunks of the
\* set that was saved.
C25_LoadFindsDownloadedSet ==
    (latest_file # None /\ last_load.called)
    => /\ last_load.source = "api"
       /\ last_load.chunks = _convert_api_data_to_chunks(latest_file[1])

====
